---- MODULE Spec2Model ----
(***************************************************************************)
(* notch-capsule: the debounced multi-source hover monitor, the hover zone *)
(* resolver and the focus command (src-tauri/src/lib.rs), the native       *)
(* animation bridge (src-tauri/src/macos/native_mask.rs) and the           *)
(* configuration (src-tauri/src/config.rs).                                *)
(*                                                                         *)
(* Time is in milliseconds.  Coordinates are points; the f64 values of the *)
(* source are whole numbers here.                                          *)
(***************************************************************************)
EXTENDS Integers, Sequences, FiniteSets

VARIABLES
    now,            \* the monotonic clock read by Instant::now()
    mouse,          \* the pointer position read by NSEvent::mouseLocation()
    expanded,       \* HoverState.expanded (AtomicBool)
    st,             \* the shared debounce state Arc<Mutex<(bool, Instant)>>
    holder,         \* the thread that holds st's mutex ("none" when free)
    call,           \* per source: the frame of its handle_mouse_move call
    hover_events,   \* the "notch-hover" payloads emitted so far, in order
    confirmedAt,    \* history: the instant of the last emitted state change
    exc,            \* history: the pointer's current excursion into the zone
    ANIMATOR,       \* the slot static ANIMATOR: Mutex<SendId>
    env,            \* the host: library files, linked image, the animator class
    death,          \* "none" while the process runs, else what ended it
    mainQueue,      \* the closures handed to run_on_main_thread, in order
    nativeLog,      \* the messages sent to native animator objects, in order
    pending,        \* animations the native engine has not completed yet
    anim_events,    \* the "notch-native-anim-end" payloads emitted, in order
    sp,             \* the frame of the set_progress call in progress
    ids,            \* the animator instances created so far
    calls,          \* the calls made to the bridge so far
    bh,             \* history of the bridge (observation only)
    fcall,          \* per caller: the frame of its set_capsule_focus call
    uiQueue,        \* the focus closures handed to the main thread, in order
    chan,           \* per caller: what its response channel holds
    win,            \* the capsule window: style-mask bit, activation, ordering
    fh,             \* history: per caller, what the focus closure did
    fcount,         \* the set_capsule_focus calls made so far
    applied,        \* history: the focus changes that reached the window, in order
    files,          \* the candidate configuration files, in probing order
    CONFIG,         \* the cell static CONFIG: OnceLock<NotchConfig>
    cthr,           \* per thread: the frame of its NotchConfig::get() call
    loads,          \* history: the runs of NotchConfig::load() so far
    displays,       \* the frames NSScreen::screens() lists, in order
    evals,          \* history: the evaluations of hover_zone so far
    wframe,         \* the frame of the window animate_window_to resizes
    wvQueue,        \* the closures handed to with_webview, in order
    timers,         \* the threads of animate_window_to that sleep before emitting
    timer_events,   \* the "notch-native-anim-end" payloads those threads emitted
    alog,           \* history: calls, resize commands and emissions, in order
    acount          \* the animate_window_to calls made so far

hoverVars == <<now, mouse, expanded, st, holder, call, hover_events, confirmedAt, exc>>
bridgeVars == <<ANIMATOR, env, death, mainQueue, nativeLog, pending, anim_events,
                sp, ids, calls, bh>>
focusVars == <<fcall, uiQueue, chan, win, fh, fcount, applied>>
configVars == <<files, CONFIG, cthr, loads>>
zoneVars == <<displays, evals>>
animVars == <<wframe, wvQueue, timers, timer_events, alog, acount>>
vars == <<hoverVars, bridgeVars, focusVars, configVars, zoneVars, animVars>>

\* what the hover monitor, the bridge, the focus command, the configuration
\* and the zone resolver each leave alone
offHover == <<bridgeVars, focusVars, configVars, zoneVars, animVars>>
offBridge == <<hoverVars, focusVars, configVars, zoneVars, animVars>>
offFocus == <<hoverVars, bridgeVars, configVars, zoneVars, animVars>>
offConfig == <<hoverVars, bridgeVars, focusVars, zoneVars, animVars>>
offZone == <<bridgeVars, focusVars, configVars, animVars>>
offAnim == <<hoverVars, bridgeVars, focusVars, configVars, zoneVars>>

----------------------------------------------------------------------------
(* Bounds of the model *)

\* the clock stops advancing here
MaxTime == 240

\* the calls made to the bridge (attach, expand, collapse, set_progress)
MaxCalls == 4

\* the calls made to set_capsule_focus
MaxFocusCalls == 3

\* the calls made to NotchConfig::get()
MaxGets == 3

\* the amounts by which the clock advances between two steps: 30 ms is less
\* than open_delay, 60 ms more; 90 ms is less than close_delay, 120 ms equal
TickSteps == {30}

\* the animate_window_to calls a behaviour makes
MaxAnimCalls == 3

\* the pointer stops moving once the polled monitor has emitted this many
\* events
MaxPollEvents == 3

----------------------------------------------------------------------------
(* Program constants *)

open_delay == 40
close_delay == 120

\* the poller's sleep between two samples, in ms
poll_period == 50

expanded_zone_w == 700
expanded_zone_h == 200
collapsed_zone_w == 460
collapsed_zone_h == 50

----------------------------------------------------------------------------
(* The screen geometry oracle: NSScreen::screens, in its order.  Two       *)
(* displays side by side that share the edge x = 1440.                     *)

Screens ==
    << [x |-> 0,    y |-> 0, w |-> 1440, h |-> 900],
       [x |-> 1440, y |-> 0, w |-> 1000, h |-> 600] >>

\* pointer positions the environment moves the pointer to
MousePoints ==
    { [x |-> 720,  y |-> 880],    \* in both zones of display 1
      [x |-> 400,  y |-> 800],    \* in the expanded zone of display 1 only
      [x |-> 3000, y |-> 100] }   \* on no display

None == <<>>
Some(v) == <<v>>

\* a frame test that leaves the edges out
FrameContainsStrict(f, m) ==
    /\ m.x > f.x
    /\ m.x < f.x + f.w
    /\ m.y > f.y
    /\ m.y < f.y + f.h

\* the frame test of the closure's loop over the screens
FrameContains(f, m) ==
    /\ m.x >= f.x
    /\ m.x <= f.x + f.w
    /\ m.y >= f.y
    /\ m.y <= f.y + f.h

\* the first screen, in oracle order, whose frame contains the pointer
FirstFrame(m, screens) ==
    LET hits == { i \in 1..Len(screens) : FrameContains(screens[i], m) }
    IN  IF hits = {} THEN None
        ELSE Some(screens[CHOOSE i \in hits : \A j \in hits : i <= j])

\* a zone sized by the confirmed hover state instead of the expanded flag
hover_zone_by_state(m, exp, screens, onMain) ==
    IF ~onMain THEN None
    ELSE LET frame == FirstFrame(m, screens)
         IN  IF frame = None THEN None
             ELSE LET f == frame[1]
                      zone_w == IF st.inside THEN expanded_zone_w ELSE collapsed_zone_w
                      zone_h == IF st.inside THEN expanded_zone_h ELSE collapsed_zone_h
                  IN  Some([x |-> f.x + (f.w - zone_w) \div 2,
                            y |-> f.y + f.h - zone_h,
                            w |-> zone_w,
                            h |-> zone_h])

\* the hover_zone closure; onMain is whether MainThreadMarker::new() succeeds
hover_zone(m, exp, screens, onMain) ==
    IF ~onMain THEN None
    ELSE LET frame == FirstFrame(m, screens)
         IN  IF frame = None THEN None
             ELSE LET f == frame[1]
                      zone_w == IF exp THEN expanded_zone_w ELSE collapsed_zone_w
                      zone_h == IF exp THEN expanded_zone_h ELSE collapsed_zone_h
                  IN  Some([x |-> f.x + (f.w - zone_w) \div 2,
                            y |-> f.y + f.h - zone_h,
                            w |-> zone_w,
                            h |-> zone_h])

\* a classification that takes a missing zone for a hit
ClassifyNoneInside(p, exp, screens, onMain) ==
    LET z == hover_zone(p, exp, screens, onMain)
    IN  IF z = None THEN TRUE
        ELSE /\ p.x >= z[1].x
             /\ p.x <= z[1].x + z[1].w
             /\ p.y >= z[1].y
             /\ p.y <= z[1].y + z[1].h

\* the classification of a sample: lines 653-658 of handle_mouse_move
Classify(p, exp, screens, onMain) ==
    LET z == hover_zone(p, exp, screens, onMain)
    IN  IF z = None THEN FALSE
        ELSE /\ p.x >= z[1].x
             /\ p.x <= z[1].x + z[1].w
             /\ p.y >= z[1].y
             /\ p.y <= z[1].y + z[1].h

----------------------------------------------------------------------------
(* The three sources of samples *)

Sources == {"global", "local", "poller"}

\* the frame of a call that has not started
IdleCall ==
    [pc |-> "idle", onMain |-> FALSE, inside |-> FALSE,
     was_inside |-> FALSE, ts |-> 0, changed |-> None, older |-> {}]

\* the threads a source's handler may be invoked on: the poller marshals its
\* call to the main thread; a monitor block runs where AppKit invokes it
Threads(c) == IF c = "poller" THEN {TRUE} ELSE {TRUE, FALSE}

\* the main thread runs one handler at a time
MainFree == \A c \in Sources : ~(call[c].pc # "idle" /\ call[c].onMain)

\* whether the pointer is in the zone as the main thread would classify it
InZone == Classify(mouse, expanded, Screens, TRUE)

\* no excursion observed
NoExcursion ==
    [enteredAt |-> 0, leftAt |-> 0, clean |-> FALSE, emitted |-> 0,
     emitAt |-> 0, allInside |-> TRUE, late |-> "none"]

InitHover ==
    /\ now = 0
    /\ mouse = [x |-> 3000, y |-> 100]
    /\ expanded = FALSE
    /\ st = [inside |-> FALSE, ts |-> 0]
    /\ holder = "none"
    /\ call = [c \in Sources |-> IdleCall]
    /\ hover_events = <<>>
    /\ confirmedAt = 0
    /\ exc = NoExcursion

----------------------------------------------------------------------------
(* The environment of the hover monitor *)

\* time passes
Tick(d) ==
    /\ now + d <= MaxTime
    /\ now' = now + d
    /\ UNCHANGED <<mouse, expanded, st, holder, call, hover_events, confirmedAt>>

\* the user moves the pointer
MoveMouse(p) ==
    /\ p # mouse
    /\ mouse' = p
    /\ UNCHANGED <<now, expanded, st, holder, call, hover_events, confirmedAt>>

\* the set_notch_expanded command: state.expanded.store(expanded)
set_notch_expanded(e) ==
    /\ expanded' = e
    /\ UNCHANGED <<now, mouse, st, holder, call, hover_events, confirmedAt>>

----------------------------------------------------------------------------
(* handle_mouse_move, one step per statement group *)

\* history: the calls that have classified their sample and not yet taken
\* the lock, when call c classifies its own
Waiting(c) == { d \in Sources \ {c} : call[d].pc = "sampled" }

\* lines 653-658: read the pointer and classify it, before the lock is taken
Sample(c, onMain) ==
    /\ call[c].pc = "idle"
    /\ onMain => MainFree
    /\ call' = [call EXCEPT ![c] =
                  [IdleCall EXCEPT !.pc = "sampled",
                                   !.onMain = onMain,
                                   !.inside = Classify(mouse, expanded, Screens, onMain),
                                   !.older = Waiting(c)]]
    /\ UNCHANGED <<now, mouse, expanded, st, holder, hover_events, confirmedAt>>

\* st shared without mutual exclusion
LockIgnored == TRUE

\* whether st's mutex can be taken
LockFree == holder = "none"

\* lines 660-661: st.lock() and the copy of the pair
Acquire(c) ==
    /\ call[c].pc = "sampled"
    /\ LockFree
    /\ holder' = c
    /\ call' = [d \in Sources |->
                  IF d = c
                  THEN [call[c] EXCEPT !.pc = "locked",
                                       !.was_inside = st.inside,
                                       !.ts = st.ts]
                  ELSE [call[d] EXCEPT !.older = @ \ {c}]]
    /\ UNCHANGED <<now, mouse, expanded, st, hover_events, confirmedAt>>

\* the decision without the test of the confirmed state in its first branch
DebounceNoStateTest(inside, was_inside, ts, tnow) ==
    IF inside /\ tnow - ts >= open_delay
    THEN [st |-> [inside |-> TRUE, ts |-> tnow], changed |-> Some(TRUE)]
    ELSE IF ~inside /\ was_inside /\ tnow - ts >= close_delay
    THEN [st |-> [inside |-> FALSE, ts |-> tnow], changed |-> Some(FALSE)]
    ELSE IF inside # was_inside
    THEN [st |-> [inside |-> was_inside, ts |-> tnow], changed |-> None]
    ELSE [st |-> [inside |-> was_inside, ts |-> ts], changed |-> None]

\* the decision with the close branch tested against open_delay
DebounceOneDelay(inside, was_inside, ts, tnow) ==
    IF inside /\ ~was_inside /\ tnow - ts >= open_delay
    THEN [st |-> [inside |-> TRUE, ts |-> tnow], changed |-> Some(TRUE)]
    ELSE IF ~inside /\ was_inside /\ tnow - ts >= open_delay
    THEN [st |-> [inside |-> FALSE, ts |-> tnow], changed |-> Some(FALSE)]
    ELSE IF inside # was_inside
    THEN [st |-> [inside |-> was_inside, ts |-> tnow], changed |-> None]
    ELSE [st |-> [inside |-> was_inside, ts |-> ts], changed |-> None]

\* the decision with the timestamp refreshed by every unconfirmed sample
DebounceAlwaysRefresh(inside, was_inside, ts, tnow) ==
    IF inside /\ ~was_inside /\ tnow - ts >= open_delay
    THEN [st |-> [inside |-> TRUE, ts |-> tnow], changed |-> Some(TRUE)]
    ELSE IF ~inside /\ was_inside /\ tnow - ts >= close_delay
    THEN [st |-> [inside |-> FALSE, ts |-> tnow], changed |-> Some(FALSE)]
    ELSE [st |-> [inside |-> was_inside, ts |-> tnow], changed |-> None]

\* the decision with the timestamp left alone by an early differing sample
DebounceNoRefresh(inside, was_inside, ts, tnow) ==
    IF inside /\ ~was_inside /\ tnow - ts >= open_delay
    THEN [st |-> [inside |-> TRUE, ts |-> tnow], changed |-> Some(TRUE)]
    ELSE IF ~inside /\ was_inside /\ tnow - ts >= close_delay
    THEN [st |-> [inside |-> FALSE, ts |-> tnow], changed |-> Some(FALSE)]
    ELSE [st |-> [inside |-> was_inside, ts |-> ts], changed |-> None]

\* the decision with an early differing sample written into the state
DebounceEarlyFlip(inside, was_inside, ts, tnow) ==
    IF inside /\ ~was_inside /\ tnow - ts >= open_delay
    THEN [st |-> [inside |-> TRUE, ts |-> tnow], changed |-> Some(TRUE)]
    ELSE IF ~inside /\ was_inside /\ tnow - ts >= close_delay
    THEN [st |-> [inside |-> FALSE, ts |-> tnow], changed |-> Some(FALSE)]
    ELSE IF inside # was_inside
    THEN [st |-> [inside |-> inside, ts |-> tnow], changed |-> None]
    ELSE [st |-> [inside |-> was_inside, ts |-> ts], changed |-> None]

\* lines 663-675: the decision; the new pair and `changed`
Debounce(inside, was_inside, ts, tnow) ==
    IF inside /\ ~was_inside /\ tnow - ts >= open_delay
    THEN [st |-> [inside |-> TRUE, ts |-> tnow], changed |-> Some(TRUE)]
    ELSE IF ~inside /\ was_inside /\ tnow - ts >= close_delay
    THEN [st |-> [inside |-> FALSE, ts |-> tnow], changed |-> Some(FALSE)]
    ELSE IF inside # was_inside
    THEN [st |-> [inside |-> was_inside, ts |-> tnow], changed |-> None]
    ELSE [st |-> [inside |-> was_inside, ts |-> ts], changed |-> None]

\* lines 662-675: Instant::now(), the decision and the write through the guard;
\* the branch that matches no condition writes nothing
Update(c) ==
    /\ call[c].pc = "locked"
    /\ LET r == Debounce(call[c].inside, call[c].was_inside, call[c].ts, now)
       IN  /\ st' = IF r.st = [inside |-> call[c].was_inside, ts |-> call[c].ts]
                    THEN st ELSE r.st
           /\ call' = [call EXCEPT ![c].pc = "written", ![c].changed = r.changed]
    /\ UNCHANGED <<now, mouse, expanded, holder, hover_events, confirmedAt>>

\* lines 677-680: the emission, then the guard is dropped as the call returns
EmitRelease(c) ==
    /\ call[c].pc = "written"
    /\ IF call[c].changed # None
       THEN /\ hover_events' = Append(hover_events, [inside |-> call[c].changed[1]])
            /\ confirmedAt' = st.ts
       ELSE UNCHANGED <<hover_events, confirmedAt>>
    /\ holder' = IF holder = c THEN "none" ELSE holder
    /\ call' = [call EXCEPT ![c] = IdleCall]
    /\ UNCHANGED <<now, mouse, expanded, st>>

----------------------------------------------------------------------------
(* The hover monitor observed excursion by excursion: the same steps, with *)
(* the history of the pointer's current stay in the zone kept in exc.      *)
(*   enteredAt, leftAt  when the pointer entered and left the zone         *)
(*   clean       it entered with Outside confirmed and no call in progress *)
(*   emitted     events emitted since it entered; emitAt, the first's time *)
(*   allInside   every sample taken since it entered was classified inside *)
(*   late        the call whose sample was taken open_delay or more after  *)
(*               entry ("done" once that call has returned)                *)
(* Every handler runs on the main thread here, where AppKit delivers the   *)
(* monitors' events and where the poller marshals its call.                *)

\* the pointer's zone membership changes from `was` to `is`
ExcMove(was, is) ==
    IF is /\ ~was
    THEN [NoExcursion EXCEPT
            !.enteredAt = now,
            !.leftAt = now,
            !.clean = (~st.inside /\ \A c \in Sources : call[c].pc = "idle")]
    ELSE IF was /\ ~is
    THEN [exc EXCEPT !.leftAt = now]
    ELSE exc

\* a sample is taken by source c and classified `inside`
ExcSample(c, inside) ==
    [exc EXCEPT !.allInside = @ /\ inside,
                !.late = IF /\ @ = "none"
                            /\ InZone
                            /\ now - exc.enteredAt >= open_delay
                         THEN c ELSE @]

\* the call of source c returns, having emitted an event or not
ExcReturn(c, emits) ==
    [exc EXCEPT !.emitted = IF emits THEN @ + 1 ELSE @,
                !.emitAt = IF emits /\ exc.emitted = 0 THEN now ELSE @,
                !.late = IF @ = c THEN "done" ELSE @]

----------------------------------------------------------------------------
(* The animation bridge: native_mask.rs *)

\* the duration arguments of the two commands, in milliseconds
expand_msg_duration == 300
collapse_msg_duration == 220

\* the candidate library paths of attach_animator, in the order it builds them
LibraryPaths ==
    << "exe_dir/libNotchCapsuleKit.dylib",
       "exe_dir/../libNotchCapsuleKit.dylib",
       "cwd/target/debug/libNotchCapsuleKit.dylib",
       "cwd/target/release/libNotchCapsuleKit.dylib" >>

\* the candidate class names of attach_animator, in list order
class_names ==
    << "NotchCapsuleKit.NotchAnimator",
       "NotchAnimator",
       "_TtC15NotchCapsuleKit13NotchAnimator" >>

\* what the host may hold at each candidate path: no file, a file that
\* dlopen refuses, a file that loads
PathCases ==
    { << "missing", "missing", "missing", "missing" >>,
      << "ok",      "missing", "missing", "missing" >>,
      << "broken",  "missing", "ok",      "ok"      >>,
      << "broken",  "broken",  "missing", "broken"  >> }

\* the names under which the library registers its animator class
ClassCases ==
    { {}, {class_names[3]}, {class_names[2], class_names[3]} }

\* the attach selectors the class responds to
SelectorCases == {"full", "alt", "none"}

\* the hosts the process may run on.  linked: the library was bound into the
\* process by the linker (build.rs), whatever the candidate paths hold
Envs ==
    [paths : PathCases, linked : BOOLEAN, classes : ClassCases,
     selectors : SelectorCases, configSetter : BOOLEAN]

\* the values the presentation layer passes to set_progress, in tenths
ProgressValues == {-5, 5, 15}

IdleProgress == [pc |-> "idle", animator_id |-> None, progress |-> 0]

NoAttach ==
    [ran |-> FALSE, loaded |-> FALSE, classFound |-> FALSE, before |-> None,
     probed |-> {}, tried |-> {}, out |-> "none", died |-> FALSE,
     failed |-> FALSE]

InitBridge(e) ==
    /\ ANIMATOR = None
    /\ env = e
    /\ death = "none"
    /\ mainQueue = <<>>
    /\ nativeLog = <<>>
    /\ pending = <<>>
    /\ anim_events = <<>>
    /\ sp = IdleProgress
    /\ ids = {}
    /\ calls = 0
    /\ bh = [attached |-> None, lastAttach |-> NoAttach, faultSeen |-> FALSE,
             fwdAfterFault |-> FALSE, unattachedExpandAt |-> 0,
             spHist |-> <<>>, latestAt |-> <<>>, sentOn |-> <<>>,
             callbacks |-> <<>>]

\* a probe that goes through the whole list and keeps the last load
ProbePathsLast(paths) ==
    LET ok == { i \in 1..Len(paths) : paths[i] = "ok" }
    IN  IF ok = {} THEN 0 ELSE CHOOSE i \in ok : \A j \in ok : i >= j

\* lines 77-97: the index of the first candidate path that exists and loads;
\* 0 when none does
ProbePaths(paths) ==
    LET ok == { i \in 1..Len(paths) : paths[i] = "ok" }
    IN  IF ok = {} THEN 0 ELSE CHOOSE i \in ok : \A j \in ok : i <= j

\* lines 77-97: the candidate paths dlopen is called on: those that exist,
\* up to the one that loads
Probed(paths) ==
    LET stop == ProbePaths(paths)
    IN  { i \in 1..Len(paths) : paths[i] # "missing" /\ (stop = 0 \/ i <= stop) }

\* the classes the Objective-C runtime knows: those of the library, once it
\* is in the process, loaded by dlopen or bound by the linker
Registered(e, loadedAt) ==
    IF loadedAt # 0 \/ e.linked THEN e.classes ELSE {}

\* a class lookup that goes through the whole list and keeps the last hit
ResolveClassLast(registered) ==
    LET hit == { i \in 1..Len(class_names) : class_names[i] \in registered }
    IN  IF hit = {} THEN 0 ELSE CHOOSE i \in hit : \A j \in hit : i >= j

\* lines 110-124: the index of the first candidate name objc_getClass
\* resolves; 0 for nil
ResolveClass(registered) ==
    LET hit == { i \in 1..Len(class_names) : class_names[i] \in registered }
    IN  IF hit = {} THEN 0 ELSE CHOOSE i \in hit : \A j \in hit : i <= j

\* lines 116-124: the candidate names objc_getClass is called with: all
\* of them up to the one that resolves
TriedNames(registered) ==
    LET found == ResolveClass(registered)
    IN  1..(IF found = 0 THEN Len(class_names) ELSE found)

\* an attach that goes on without a class
AttachOutcomeIgnoresClass(nswin, cls, newOk, selectors, fault) ==
    IF ~nswin THEN "no_window"
    ELSE IF ~newOk THEN "nil_instance"
    ELSE IF selectors = "none" THEN "no_selector"
    ELSE IF fault THEN "fault"
    ELSE "stored"

\* a closure that stores the handle although the attach call raised
AttachOutcomeFaultStores(nswin, cls, newOk, selectors, fault) ==
    IF ~nswin THEN "no_window"
    ELSE IF cls = 0 THEN "no_class"
    ELSE IF ~newOk THEN "nil_instance"
    ELSE IF selectors = "none" THEN "no_selector"
    ELSE "stored"

\* the closure of attach_animator, lines 36-185: where it ends
AttachOutcome(nswin, cls, newOk, selectors, fault) ==
    IF ~nswin THEN "no_window"
    ELSE IF cls = 0 THEN "no_class"
    ELSE IF ~newOk THEN "nil_instance"
    ELSE IF selectors = "none" THEN "no_selector"
    ELSE IF fault THEN "fault"
    ELSE "stored"

\* a slot that keeps its first handle
StoreHandleFirstWins(slot, animator) == IF slot = None THEN Some(animator) ELSE slot

\* lines 187-189: guard.0 = Some(animator)
StoreHandle(slot, animator) == Some(animator)

\* an argument clamped to [0, 1]
SetProgressArgClamped(progress) ==
    IF progress < 0 THEN 0 ELSE IF progress > 10 THEN 10 ELSE progress

\* line 286: the argument of setProgress:
SetProgressArg(progress) == progress

\* lines 299: the payload of the completion callback
PhaseName(phase) == IF phase = 0 THEN "expand" ELSE "collapse"

Alive == death = "none"

\* a message sent to a native object from a thread, and the handle of the
\* most recent successful attach when the sender read the slot
Sent(log, hist, to, msg, arg, latest, thread) ==
    /\ nativeLog' = Append(log, [to |-> to, msg |-> msg, arg |-> arg])
    /\ bh' = [hist EXCEPT !.latestAt = Append(@, latest),
                          !.sentOn = Append(@, thread)]

\* lines 293-301: what _notch_notify_anim_end emits when the pointer it is
\* given can be read
notify_anim_end(app_ptr, phase) ==
    IF app_ptr = "null" THEN << >> ELSE << [phase |-> PhaseName(phase)] >>

\* the commands notch_attach, notch_expand, notch_collapse: the closure is
\* handed to the main thread, unless run_on_main_thread fails
Submit(op, scheduled) ==
    /\ Alive
    /\ calls < MaxCalls
    /\ calls' = calls + 1
    /\ mainQueue' = IF scheduled THEN Append(mainQueue, op) ELSE mainQueue
    /\ UNCHANGED <<ANIMATOR, env, death, nativeLog, pending, anim_events, sp, ids, bh>>

attach_animator(scheduled) == Submit("attach", scheduled)
expand(scheduled) == Submit("expand", scheduled)
collapse(scheduled) == Submit("collapse", scheduled)

\* the main thread runs the closure of attach_animator, lines 34-223.
\* nswin: ns_window() succeeds; newOk: `new` returns an instance;
\* fault: the attachTo: call raises; abort: the fault is not caught by
\* catch_unwind, which catches Rust panics and leaves foreign exceptions
\* unspecified
AttachTask(nswin, newOk, fault, abort) ==
    /\ Alive
    /\ mainQueue # <<>>
    /\ Head(mainQueue) = "attach"
    /\ mainQueue' = Tail(mainQueue)
    /\ LET loadedAt == ProbePaths(env.paths)
           cls == ResolveClass(Registered(env, loadedAt))
           raises == fault \/ env.selectors = "alt"
           out == AttachOutcome(nswin, cls, newOk, env.selectors, raises)
           animator == Cardinality(ids) + 1
           created == nswin /\ cls # 0 /\ newOk
           stored == out = "stored"
           msgs == (IF out \in {"fault", "stored"}
                    THEN << [to |-> animator, msg |-> "attachTo", arg |-> 0] >>
                    ELSE << >>)
                   \o
                   (IF stored /\ env.configSetter
                    THEN << [to |-> animator, msg |-> "setConfigJson", arg |-> 0] >>
                    ELSE << >>)
       IN  /\ ids' = IF created THEN ids \cup {animator} ELSE ids
           /\ ANIMATOR' = IF stored THEN StoreHandle(ANIMATOR, animator) ELSE ANIMATOR
           /\ death' = IF out = "fault" /\ abort THEN "fault" ELSE death
           /\ nativeLog' = nativeLog \o msgs
           /\ bh' = [bh EXCEPT
                 !.attached = IF stored THEN Some(animator) ELSE @,
                 !.lastAttach = [ran |-> TRUE, loaded |-> nswin /\ loadedAt # 0,
                                 classFound |-> nswin /\ cls # 0, before |-> ANIMATOR,
                                 probed |-> IF nswin THEN Probed(env.paths) ELSE {},
                                 tried |-> IF nswin
                                           THEN TriedNames(Registered(env, loadedAt))
                                           ELSE {},
                                 out |-> out,
                                 died |-> out = "fault" /\ abort,
                                 failed |-> \/ ~nswin
                                            \/ cls = 0
                                            \/ ~newOk
                                            \/ env.selectors = "none"
                                            \/ raises],
                 !.faultSeen = IF stored THEN FALSE
                               ELSE IF out = "fault" THEN TRUE ELSE @,
                 !.latestAt = @ \o [i \in 1..Len(msgs) |-> Some(animator)],
                 !.sentOn = @ \o [i \in 1..Len(msgs) |-> "main"]]
    /\ UNCHANGED <<env, pending, anim_events, sp, calls>>

\* a command closure that sends its message to nil when the slot is empty
CommandTaskBlind(op, phase, msg, duration, fault, abort, sync) ==
    /\ Alive
    /\ mainQueue # <<>>
    /\ Head(mainQueue) = op
    /\ mainQueue' = Tail(mainQueue)
    /\ Sent(nativeLog, bh, IF ANIMATOR = None THEN 0 ELSE ANIMATOR[1],
            msg, duration, bh.attached, "main")
    /\ UNCHANGED <<ANIMATOR, env, death, pending, anim_events, sp, ids, calls>>

\* a command closure that sends nothing while an animation is in flight
CommandTaskCoalesces(op, phase, msg, duration, fault, abort, sync) ==
    /\ Alive
    /\ mainQueue # <<>>
    /\ Head(mainQueue) = op
    /\ mainQueue' = Tail(mainQueue)
    /\ IF ANIMATOR = None \/ pending # <<>>
       THEN UNCHANGED <<nativeLog, bh, pending>>
       ELSE /\ Sent(nativeLog, bh, ANIMATOR[1], msg, duration, bh.attached, "main")
            /\ pending' = Append(pending, [phase |-> phase, app_ptr |-> "dropped"])
    /\ UNCHANGED <<ANIMATOR, env, death, anim_events, sp, ids, calls>>

\* a command closure that empties the slot when its native call raises
CommandTaskResets(op, phase, msg, duration, fault, abort, sync) ==
    /\ Alive
    /\ mainQueue # <<>>
    /\ Head(mainQueue) = op
    /\ mainQueue' = Tail(mainQueue)
    /\ IF ANIMATOR = None
       THEN UNCHANGED <<ANIMATOR, nativeLog, bh, death, pending, anim_events>>
       ELSE /\ Sent(nativeLog, bh, ANIMATOR[1], msg, duration, bh.attached, "main")
            /\ ANIMATOR' = IF fault THEN None ELSE ANIMATOR
            /\ pending' = IF fault THEN pending
                          ELSE Append(pending, [phase |-> phase, app_ptr |-> "dropped"])
            /\ UNCHANGED <<death, anim_events>>
    /\ UNCHANGED <<env, sp, ids, calls>>

\* the main thread runs the closure of expand (phase 0) or collapse
\* (phase 1), lines 234-246 and 253-265.  fault: the native call raises;
\* nothing catches it, and what follows is not defined: the process ends
\* (abort) or the host's run loop swallows the exception.  sync: the engine
\* calls the completion callback before the command returns
CommandTask(op, phase, msg, duration, fault, abort, sync) ==
    /\ Alive
    /\ mainQueue # <<>>
    /\ Head(mainQueue) = op
    /\ mainQueue' = Tail(mainQueue)
    /\ IF ANIMATOR = None
       THEN /\ bh' = IF op = "expand"
                     THEN [bh EXCEPT !.unattachedExpandAt = Len(anim_events) + 1]
                     ELSE bh
            /\ UNCHANGED <<nativeLog, death, pending, anim_events>>
       ELSE /\ Sent(nativeLog,
                    [bh EXCEPT !.faultSeen = @ \/ fault,
                               !.fwdAfterFault = @ \/ bh.faultSeen,
                               !.callbacks = IF ~fault /\ sync
                                             THEN Append(@, [app_ptr |-> "live",
                                                             phase |-> phase])
                                             ELSE @],
                    ANIMATOR[1], msg, duration, bh.attached, "main")
            /\ death' = IF fault /\ abort THEN "fault" ELSE death
            /\ pending' = IF fault \/ sync THEN pending
                          ELSE Append(pending, [phase |-> phase, app_ptr |-> "dropped"])
            /\ anim_events' = IF ~fault /\ sync
                              THEN anim_events \o notify_anim_end("live", phase)
                              ELSE anim_events
    /\ UNCHANGED <<ANIMATOR, env, sp, ids, calls>>

ExpandTask(fault, abort, sync) ==
    CommandTask("expand", 0, "expandWithDuration", expand_msg_duration, fault, abort, sync)

CollapseTask(fault, abort, sync) ==
    CommandTask("collapse", 1, "collapseWithDuration", collapse_msg_duration, fault, abort, sync)

\* the engine finishes an animation and calls _notch_notify_anim_end, lines
\* 293-301, with the pointer it was given: the AppHandle it points to was
\* dropped when the closure returned, so the read is not defined: the event
\* is emitted from the stale bytes, or the process ends.  An engine that
\* has no pointer to give passes null
NotifyAnimEnd(app_ptr, crash) ==
    /\ Alive
    /\ pending # <<>>
    /\ pending' = Tail(pending)
    /\ bh' = [bh EXCEPT !.callbacks = Append(@, [app_ptr |-> app_ptr,
                                                 phase |-> Head(pending).phase])]
    /\ IF app_ptr # "null" /\ crash
       THEN death' = "callback" /\ UNCHANGED anim_events
       ELSE /\ anim_events' = anim_events \o notify_anim_end(app_ptr, Head(pending).phase)
            /\ UNCHANGED death
    /\ UNCHANGED <<ANIMATOR, env, mainQueue, nativeLog, sp, ids, calls>>

\* set_progress, lines 269-277: the copy of the slot under the lock; the
\* call returns here when the slot is None
SetProgressCopy(progress) ==
    /\ Alive
    /\ sp.pc = "idle"
    /\ calls < MaxCalls
    /\ calls' = calls + 1
    /\ sp' = IF ANIMATOR = None THEN IdleProgress
             ELSE [pc |-> "copied", animator_id |-> ANIMATOR, progress |-> progress]
    /\ bh' = [bh EXCEPT !.spHist = Append(@, [progress |-> progress,
                                              animator_id |-> ANIMATOR,
                                              latest |-> bh.attached])]
    /\ UNCHANGED <<ANIMATOR, env, death, mainQueue, nativeLog, pending, anim_events, ids>>

\* set_progress, lines 284-288: the message, sent without the lock on the
\* caller's thread: notch_set_progress is an async command, which the
\* runtime runs on one of its worker threads
SetProgressSend ==
    /\ Alive
    /\ sp.pc = "copied"
    /\ Sent(nativeLog, bh, sp.animator_id[1], "setProgress",
            SetProgressArg(sp.progress), bh.spHist[Len(bh.spHist)].latest, "worker")
    /\ sp' = IdleProgress
    /\ UNCHANGED <<ANIMATOR, env, death, mainQueue, pending, anim_events, ids, calls>>

NextBridge ==
    \/ \E s \in BOOLEAN : attach_animator(s) /\ UNCHANGED offBridge
    \/ \E s \in BOOLEAN : expand(s) /\ UNCHANGED offBridge
    \/ \E s \in BOOLEAN : collapse(s) /\ UNCHANGED offBridge
    \/ \E w, n, f, a \in BOOLEAN : AttachTask(w, n, f, a) /\ UNCHANGED offBridge
    \/ \E f, a, y \in BOOLEAN : ExpandTask(f, a, y) /\ UNCHANGED offBridge
    \/ \E f, a, y \in BOOLEAN : CollapseTask(f, a, y) /\ UNCHANGED offBridge
    \/ \E a \in {"null", "dropped"} : \E c \in BOOLEAN :
          NotifyAnimEnd(a, c) /\ UNCHANGED offBridge
    \/ \E p \in ProgressValues : SetProgressCopy(p) /\ UNCHANGED offBridge
    \/ SetProgressSend /\ UNCHANGED offBridge

----------------------------------------------------------------------------
(* The focus command: set_capsule_focus, lib.rs 197-257 *)

\* the callers of the command that may be in flight together
Callers == {"a", "b"}

\* lines 206-216 and 238: what the closure can report
FocusResults ==
    {"Ok", "notch window not found", "unable to access native window",
     "native window pointer was null"}

IdleFocus == [pc |-> "idle", focus |-> FALSE, onMain |-> FALSE, ret |-> "none"]

NotRun == [ran |-> FALSE, result |-> "none", thread |-> "none"]

\* the window as elevate_to_status_bar leaves it: non-activating
SetupWindow == [nonactivating |-> TRUE, active |-> FALSE, order |-> "setup"]

InitFocus ==
    /\ fcall = [c \in Callers |-> IdleFocus]
    /\ uiQueue = <<>>
    /\ chan = [c \in Callers |-> "empty"]
    /\ win = SetupWindow
    /\ fh = [c \in Callers |-> NotRun]
    /\ fcount = 0
    /\ applied = <<>>

\* a closure that flips the trait instead of setting it from its argument
FocusMutationToggles(focus, w, found, nsOk, nonNull) ==
    IF ~found THEN [result |-> "notch window not found", win |-> w]
    ELSE IF ~nsOk THEN [result |-> "unable to access native window", win |-> w]
    ELSE IF ~nonNull THEN [result |-> "native window pointer was null", win |-> w]
    ELSE IF w.nonactivating
    THEN [result |-> "Ok",
          win |-> [nonactivating |-> FALSE, active |-> TRUE, order |-> "front"]]
    ELSE [result |-> "Ok",
          win |-> [nonactivating |-> TRUE, active |-> FALSE, order |-> "back"]]

\* a closure that puts the window back to non-activating when it fails
FocusMutationDemotes(focus, w, found, nsOk, nonNull) ==
    IF ~(found /\ nsOk /\ nonNull)
    THEN [result |-> IF ~found THEN "notch window not found"
                     ELSE IF ~nsOk THEN "unable to access native window"
                     ELSE "native window pointer was null",
          win |-> [nonactivating |-> TRUE, active |-> FALSE, order |-> "back"]]
    ELSE IF focus
    THEN [result |-> "Ok",
          win |-> [nonactivating |-> FALSE, active |-> TRUE, order |-> "front"]]
    ELSE [result |-> "Ok",
          win |-> [nonactivating |-> TRUE, active |-> FALSE, order |-> "back"]]

\* lines 205-239: the closure.  found: get_webview_window finds the capsule;
\* nsOk: ns_window() succeeds; nonNull: the pointer is not null
FocusMutation(focus, w, found, nsOk, nonNull) ==
    IF ~found THEN [result |-> "notch window not found", win |-> w]
    ELSE IF ~nsOk THEN [result |-> "unable to access native window", win |-> w]
    ELSE IF ~nonNull THEN [result |-> "native window pointer was null", win |-> w]
    ELSE IF focus
    THEN [result |-> "Ok",
          win |-> [nonactivating |-> FALSE, active |-> TRUE, order |-> "front"]]
    ELSE [result |-> "Ok",
          win |-> [nonactivating |-> TRUE, active |-> FALSE, order |-> "back"]]

\* the record of the closures that got as far as the window
Applied(hist, c, focus, result) ==
    IF result = "Ok" THEN Append(hist, [caller |-> c, focus |-> focus]) ELSE hist

\* a command that reports success whatever it received
FocusReturnAlwaysOk(received) == "Ok"

\* lines 250-256: the value returned from what rx.recv() yields
FocusReturn(received) ==
    IF received = "dropped" THEN "focus change channel dropped" ELSE received

\* the main thread is inside a set_capsule_focus call it runs itself
MainInFocusCall == \E c \in Callers : fcall[c].pc = "recv" /\ fcall[c].onMain

\* lines 203-246: the call up to run_on_main_thread.  A caller that is the
\* main thread has its closure run before run_on_main_thread returns; any
\* other caller has it queued for the event loop, unless scheduling fails
FocusCall(c, focus, onMain, scheduled, found, nsOk, nonNull) ==
    /\ fcall[c].pc = "idle"
    /\ fcount < MaxFocusCalls
    /\ onMain => ~MainInFocusCall
    /\ fcount' = fcount + 1
    /\ IF onMain
       THEN LET m == FocusMutation(focus, win, found, nsOk, nonNull)
            IN  /\ win' = m.win
                /\ applied' = Applied(applied, c, focus, m.result)
                /\ chan' = [chan EXCEPT ![c] = m.result]
                /\ fh' = [fh EXCEPT ![c] = [ran |-> TRUE, result |-> m.result,
                                            thread |-> "main"]]
                /\ fcall' = [fcall EXCEPT ![c] = [pc |-> "recv", focus |-> focus,
                                                  onMain |-> TRUE, ret |-> "none"]]
                /\ UNCHANGED uiQueue
       ELSE /\ fh' = [fh EXCEPT ![c] = NotRun]
            /\ UNCHANGED <<win, chan, applied>>
            /\ IF scheduled
               THEN /\ uiQueue' = Append(uiQueue, [caller |-> c, focus |-> focus])
                    /\ fcall' = [fcall EXCEPT ![c] = [pc |-> "recv", focus |-> focus,
                                                      onMain |-> FALSE, ret |-> "none"]]
               ELSE /\ UNCHANGED uiQueue
                    /\ fcall' = [fcall EXCEPT ![c] =
                          [pc |-> "returned", focus |-> focus, onMain |-> FALSE,
                           ret |-> "failed to schedule focus change"]]

\* the event loop runs the oldest queued closure: lines 205-242
FocusRun(found, nsOk, nonNull) ==
    /\ uiQueue # <<>>
    /\ ~MainInFocusCall
    /\ LET t == Head(uiQueue)
           m == FocusMutation(t.focus, win, found, nsOk, nonNull)
       IN  /\ win' = m.win
           /\ applied' = Applied(applied, t.caller, t.focus, m.result)
           /\ chan' = [chan EXCEPT ![t.caller] = m.result]
           /\ fh' = [fh EXCEPT ![t.caller] = [ran |-> TRUE, result |-> m.result,
                                              thread |-> "main"]]
    /\ uiQueue' = Tail(uiQueue)
    /\ UNCHANGED <<fcall, fcount>>

\* an event loop that forgets the oldest queued closure without dropping
\* it: the sending end of the channel stays open
FocusDropKeepsSender ==
    /\ uiQueue # <<>>
    /\ uiQueue' = Tail(uiQueue)
    /\ UNCHANGED <<fcall, chan, win, fh, fcount, applied>>

\* the event loop ends and drops the oldest queued closure, and with it the
\* sending end of the channel
FocusDrop ==
    /\ uiQueue # <<>>
    /\ chan' = [chan EXCEPT ![Head(uiQueue).caller] = "dropped"]
    /\ uiQueue' = Tail(uiQueue)
    /\ UNCHANGED <<fcall, win, fh, fcount, applied>>

\* lines 248-256: rx.recv() yields and the command returns
FocusRecv(c) ==
    /\ fcall[c].pc = "recv"
    /\ chan[c] # "empty"
    /\ fcall' = [fcall EXCEPT ![c].pc = "returned", ![c].ret = FocusReturn(chan[c])]
    /\ UNCHANGED <<uiQueue, chan, win, fh, fcount, applied>>

\* the caller takes the returned value; its frame and channel are gone
FocusDone(c) ==
    /\ fcall[c].pc = "returned"
    /\ fcall' = [fcall EXCEPT ![c] = IdleFocus]
    /\ chan' = [chan EXCEPT ![c] = "empty"]
    /\ UNCHANGED <<uiQueue, win, fh, fcount, applied>>

NextFocus ==
    \/ \E c \in Callers : \E b, m, s, f, n, p \in BOOLEAN :
          FocusCall(c, b, m, s, f, n, p) /\ UNCHANGED offFocus
    \/ \E f, n, p \in BOOLEAN : FocusRun(f, n, p) /\ UNCHANGED offFocus
    \/ FocusDrop /\ UNCHANGED offFocus
    \/ \E c \in Callers : FocusRecv(c) /\ UNCHANGED offFocus
    \/ \E c \in Callers : FocusDone(c) /\ UNCHANGED offFocus

----------------------------------------------------------------------------
(* The configuration: config.rs *)

\* lines 86-167: the compiled-in defaults.  Durations are in hundredths of a
\* second, lengths in points, delays in milliseconds
DefaultConfig ==
    [expand_duration |-> 50, collapse_duration |-> 35,
     corner_radius |-> 12,
     collapsed_width |-> 460, collapsed_height |-> 50,
     expanded_width |-> 700, expanded_height |-> 200,
     collapsed_zone_width |-> 460, collapsed_zone_height |-> 50,
     expanded_zone_width |-> 700, expanded_zone_height |-> 200,
     expand_delay_ms |-> 250, collapse_delay_ms |-> 150,
     poll_interval_ms |-> 50, level_offset |-> 3]

\* what a candidate location may hold: nothing read_to_string can read, text
\* serde_json rejects, or one of two well-formed files
FileKinds == {"absent", "bad", "A", "B"}

\* the NotchConfig a well-formed file parses to
FileConfig(k) ==
    IF k = "A"
    THEN [DefaultConfig EXCEPT !.expand_duration = 30, !.collapsed_width = 400,
                               !.expanded_zone_width = 800, !.expanded_zone_height = 240,
                               !.collapsed_zone_width = 500, !.collapsed_zone_height = 60,
                               !.expand_delay_ms = 40, !.collapse_delay_ms = 120]
    ELSE [DefaultConfig EXCEPT !.expand_duration = 80, !.collapsed_width = 520]

\* the threads that may call NotchConfig::get()
CfgThreads == {"t1", "t2"}

IdleGet == [pc |-> "idle", ret |-> None]

NoLoads == [runs |-> 0, gets |-> 0, saw |-> <<>>, returned |-> {}]

\* the candidate locations as the hover monitor and the bridge find them
NoFiles == << "absent", "absent", "absent" >>

InitConfig(fs) ==
    /\ files = fs
    /\ CONFIG = None
    /\ cthr = [t \in CfgThreads |-> IdleGet]
    /\ loads = NoLoads

\* lines 54-74: NotchConfig::load().  The first location that can be read
\* decides: its parse error leaves the function through `?`.  None is Err,
\* Some(c) is Ok(c)
load(fs) ==
    LET readable == { i \in 1..Len(fs) : fs[i] # "absent" }
    IN  IF readable = {} THEN None
        ELSE LET i == CHOOSE j \in readable : \A k \in readable : j <= k
             IN  IF fs[i] = "bad" THEN None ELSE Some(FileConfig(fs[i]))

\* a fallback that is not the compiled-in defaults
unwrap_or_file(res) == IF res = None THEN FileConfig("A") ELSE res[1]

\* lines 78-81: unwrap_or_else(|e| Self::default())
unwrap_or_default(res) == IF res = None THEN DefaultConfig ELSE res[1]

\* a cell any caller may initialize while it is empty
MayInitRacy(cell, busy) == cell = None

\* OnceLock::get_or_init: one initializer runs, the other callers wait
MayInit(cell, busy) == cell = None /\ ~busy

\* OnceLock: the cell is set once
OnceSet(cell, v) == IF cell = None THEN Some(v) ELSE cell

Initializing == \E t \in CfgThreads : cthr[t].pc = "init"

\* line 77: get_or_init is entered
GetStart(t) ==
    /\ cthr[t].pc = "idle"
    /\ loads.gets < MaxGets
    /\ loads' = [loads EXCEPT !.gets = @ + 1,
                              !.returned = IF CONFIG # None THEN @ \cup {CONFIG[1]} ELSE @]
    /\ cthr' = [cthr EXCEPT ![t] =
          IF CONFIG # None THEN [pc |-> "done", ret |-> CONFIG]
          ELSE IF MayInit(CONFIG, Initializing) THEN [pc |-> "init", ret |-> None]
          ELSE [pc |-> "wait", ret |-> None]]
    /\ UNCHANGED <<files, CONFIG>>

\* lines 78-82: the initializer runs load() and the cell is set
GetInit(t) ==
    /\ cthr[t].pc = "init"
    /\ LET v == unwrap_or_default(load(files))
           cell == OnceSet(CONFIG, v)
       IN  /\ CONFIG' = cell
           /\ cthr' = [cthr EXCEPT ![t] = [pc |-> "done", ret |-> cell]]
           /\ loads' = [loads EXCEPT !.runs = @ + 1,
                                     !.saw = IF @ = <<>> THEN files ELSE @,
                                     !.returned = @ \cup {cell[1]}]
    /\ UNCHANGED files

\* a caller that waited finds the cell set
GetWake(t) ==
    /\ cthr[t].pc = "wait"
    /\ CONFIG # None
    /\ cthr' = [cthr EXCEPT ![t] = [pc |-> "done", ret |-> CONFIG]]
    /\ loads' = [loads EXCEPT !.returned = @ \cup {CONFIG[1]}]
    /\ UNCHANGED <<files, CONFIG>>

\* the caller goes on with the reference it got
GetDone(t) ==
    /\ cthr[t].pc = "done"
    /\ cthr' = [cthr EXCEPT ![t] = IdleGet]
    /\ UNCHANGED <<files, CONFIG, loads>>

\* the file system changes under the process
FsChange(i, k) ==
    /\ files[i] # k
    /\ files' = [files EXCEPT ![i] = k]
    /\ UNCHANGED <<CONFIG, cthr, loads>>

NextConfig ==
    \/ \E t \in CfgThreads : GetStart(t) /\ UNCHANGED offConfig
    \/ \E t \in CfgThreads : GetInit(t) /\ UNCHANGED offConfig
    \/ \E t \in CfgThreads : GetWake(t) /\ UNCHANGED offConfig
    \/ \E t \in CfgThreads : GetDone(t) /\ UNCHANGED offConfig
    \/ \E i \in 1..3 : \E k \in FileKinds : FsChange(i, k) /\ UNCHANGED offConfig

----------------------------------------------------------------------------
(* The zone resolver on its own: the hover_zone closure, lib.rs 689-716 *)

\* the display lists the oracle may return: the two displays in either
\* order, the first alone, none
DisplayLists ==
    { Screens, << Screens[2], Screens[1] >>, << Screens[1] >>, << >> }

\* pointer positions: inside display 1, on the edge the displays share,
\* inside display 2, on the corners of display 1, on no display
ZonePoints ==
    { [x |-> 720,  y |-> 880], [x |-> 1440, y |-> 300], [x |-> 2000, y |-> 300],
      [x |-> 0,    y |-> 0],   [x |-> 1440, y |-> 900], [x |-> 3000, y |-> 100] }

\* the snapshots NotchConfig::get() may have produced
Snapshots == { DefaultConfig, FileConfig("A") }

InitZone(ds) ==
    /\ displays = ds
    /\ evals = <<>>

\* one evaluation of the closure: lines 689-716.  It reads the pointer it
\* is given, the expanded flag and the display list, and writes nothing
Evaluate(onMain) ==
    /\ evals' = (IF evals = <<>> THEN <<>> ELSE << evals[Len(evals)] >>)
                \o << [onMain |-> onMain, mouse |-> mouse, expanded |-> expanded,
                       st |-> st,
                       result |-> hover_zone(mouse, expanded, displays, onMain)] >>
    /\ UNCHANGED <<displays, hoverVars>>

\* handle_mouse_move confirms a change of the hover state: lines 665-672
HoverStateFlips ==
    /\ st' = [st EXCEPT !.inside = ~@]
    /\ UNCHANGED <<now, mouse, expanded, holder, call, hover_events, confirmedAt, exc>>
    /\ UNCHANGED zoneVars

NextZone ==
    \/ \E t \in BOOLEAN : Evaluate(t) /\ UNCHANGED offZone
    \/ \E p \in ZonePoints : MoveMouse(p) /\ UNCHANGED <<exc, offHover>>
    \/ \E e \in BOOLEAN : set_notch_expanded(e) /\ UNCHANGED <<exc, offHover>>
    \/ HoverStateFlips /\ UNCHANGED offZone

----------------------------------------------------------------------------
(* The window animation: animate_window_to, macos/native_anim.rs 20-70 *)

\* the sizes and phases callers pass; widths are even, so that the halves
\* of the source's f64 arithmetic are whole numbers
AnimSizes == { [w |-> 700, h |-> 200], [w |-> 460, h |-> 50] }
AnimPhases == {"expand", "collapse"}

\* the window before any resize: collapsed, at the top centre of display 1
StartFrame == [x |-> 490, y |-> 850, w |-> 460, h |-> 50]

InitAnim ==
    /\ wframe = StartFrame
    /\ wvQueue = <<>>
    /\ timers = {}
    /\ timer_events = <<>>
    /\ alog = <<>>
    /\ acount = 0

\* lines 9-11
window_mid_x(frame) == frame.x + frame.w \div 2

\* lines 36-46: the target frame: centred on the current middle, the top
\* edge kept where it is
TargetFrame(frame, target_w, target_h) ==
    [x |-> window_mid_x(frame) - target_w \div 2,
     y |-> (frame.y + frame.h) - target_h,
     w |-> target_w,
     h |-> target_h]

\* an entry of the history
AnimEntry(ev, id, phase, frame) == [ev |-> ev, id |-> id, phase |-> phase, frame |-> frame]

\* lines 20-34 and 68-69: the call hands its closure to the main thread
\* through with_webview; an error of with_webview is discarded
animate_window_to(size, phase, scheduled) ==
    /\ acount < MaxAnimCalls
    /\ acount' = acount + 1
    /\ alog' = Append(alog, AnimEntry("call", acount + 1, phase, wframe))
    /\ wvQueue' = IF scheduled
                  THEN Append(wvQueue, [id |-> acount + 1, size |-> size, phase |-> phase])
                  ELSE wvQueue
    /\ UNCHANGED <<wframe, timers, timer_events>>

\* a closure that starts its timer thread whether or not it found the window
AnimTaskTimerAlways(resolved) ==
    /\ wvQueue # <<>>
    /\ LET t == Head(wvQueue)
           target == TargetFrame(wframe, t.size.w, t.size.h)
       IN  /\ wframe' = IF resolved THEN target ELSE wframe
           /\ alog' = IF resolved
                      THEN Append(alog, AnimEntry("setFrame", t.id, t.phase, target))
                      ELSE alog
           /\ timers' = timers \cup {[id |-> t.id, phase |-> t.phase]}
    /\ wvQueue' = Tail(wvQueue)
    /\ UNCHANGED <<timer_events, acount>>

\* lines 33-66: the main thread runs the closure.  resolved: ns_window()
\* yields the native window.  The resize command is issued through the
\* window's animator, then the thread that will emit the event is spawned
AnimTask(resolved) ==
    /\ wvQueue # <<>>
    /\ LET t == Head(wvQueue)
           target == TargetFrame(wframe, t.size.w, t.size.h)
       IN  IF resolved
           THEN /\ wframe' = target
                /\ alog' = Append(alog, AnimEntry("setFrame", t.id, t.phase, target))
                /\ timers' = timers \cup {[id |-> t.id, phase |-> t.phase]}
           ELSE UNCHANGED <<wframe, alog, timers>>
    /\ wvQueue' = Tail(wvQueue)
    /\ UNCHANGED <<timer_events, acount>>

\* lines 57-65: a timer thread wakes from its sleep, emits and ends
TimerFire(t) ==
    /\ t \in timers
    /\ timers' = timers \ {t}
    /\ timer_events' = Append(timer_events, [phase |-> t.phase])
    /\ alog' = Append(alog, AnimEntry("emit", t.id, t.phase, wframe))
    /\ UNCHANGED <<wframe, wvQueue, acount>>

\* the timer threads there can be
TimerIds == { [id |-> i, phase |-> ph] : i \in 1..MaxAnimCalls, ph \in AnimPhases }

NextAnim ==
    \/ \E z \in AnimSizes : \E ph \in AnimPhases : \E s \in BOOLEAN :
          animate_window_to(z, ph, s) /\ UNCHANGED offAnim
    \/ \E r \in BOOLEAN : AnimTask(r) /\ UNCHANGED offAnim
    \/ \E t \in TimerIds : TimerFire(t) /\ UNCHANGED offAnim

-----------------------------------------------------------------------------
(* Specifications *)

\* the host the hover monitor is checked on: the bridge stays idle there
HoverEnv ==
    [paths |-> << "missing", "missing", "missing", "missing" >>, linked |-> FALSE,
     classes |-> {}, selectors |-> "none", configSetter |-> FALSE]

NextHover ==
    \/ \E d \in TickSteps : Tick(d) /\ UNCHANGED <<exc, offHover>>
    \/ \E p \in MousePoints : MoveMouse(p) /\ UNCHANGED <<exc, offHover>>
    \/ \E e \in BOOLEAN : set_notch_expanded(e) /\ UNCHANGED <<exc, offHover>>
    \/ \E c \in Sources : \E t \in Threads(c) : Sample(c, t) /\ UNCHANGED <<exc, offHover>>
    \/ \E c \in Sources : Acquire(c) /\ UNCHANGED <<exc, offHover>>
    \/ \E c \in Sources : Update(c) /\ UNCHANGED <<exc, offHover>>
    \/ \E c \in Sources : EmitRelease(c) /\ UNCHANGED <<exc, offHover>>

\* the monitor at start, the bridge idle
InitMonitor ==
    /\ InitHover
    /\ InitBridge(HoverEnv)
    /\ InitFocus
    /\ InitConfig(NoFiles)
    /\ InitZone(Screens)
    /\ InitAnim

\* the hover monitor, its three sources interleaved
Spec == InitMonitor /\ [][NextHover]_vars

\* lines 755-762: the poller's loop: thread::sleep, then handle_mouse_move
\* handed to the main thread.  Instants are opaque: the code sees only the
\* time elapsed since the stored timestamp, and compares it with the two
\* delays.  The clock is therefore kept relative to the stored timestamp,
\* which becomes the origin at every wake, and an elapsed time that has
\* reached close_delay is not counted further
PollerWake ==
    /\ call["poller"].pc = "idle"
    /\ MainFree
    /\ LET elapsed == now - st.ts
       IN  now' = IF elapsed >= close_delay THEN elapsed ELSE elapsed + poll_period
    /\ st' = [st EXCEPT !.ts = 0]
    /\ confirmedAt' = 0
    /\ call' = [call EXCEPT !["poller"] =
                  [IdleCall EXCEPT !.pc = "sampled",
                                   !.onMain = TRUE,
                                   !.inside = Classify(mouse, expanded, Screens, TRUE),
                                   !.older = Waiting("poller")]]
    /\ UNCHANGED <<mouse, expanded, holder, hover_events>>

\* the monitor with the poller as its only source, on its period
NextPoll ==
    \/ PollerWake /\ UNCHANGED <<exc, offHover>>
    \/ Acquire("poller") /\ UNCHANGED <<exc, offHover>>
    \/ Update("poller") /\ UNCHANGED <<exc, offHover>>
    \/ EmitRelease("poller") /\ UNCHANGED <<exc, offHover>>
    \/ \E p \in MousePoints :
          /\ Len(hover_events) < MaxPollEvents
          /\ MoveMouse(p)
          /\ UNCHANGED <<exc, offHover>>
    \/ \E e \in BOOLEAN :
          /\ Len(hover_events) < MaxPollEvents
          /\ e # expanded
          /\ set_notch_expanded(e)
          /\ UNCHANGED <<exc, offHover>>

\* the polled monitor: the poller never stops, and the main thread runs
\* each handler it is handed to the end
SpecPoll ==
    /\ InitMonitor
    /\ [][NextPoll]_vars
    /\ WF_vars(PollerWake /\ UNCHANGED <<exc, offHover>>)
    /\ WF_vars(Acquire("poller") /\ UNCHANGED <<exc, offHover>>)
    /\ WF_vars(Update("poller") /\ UNCHANGED <<exc, offHover>>)
    /\ WF_vars(EmitRelease("poller") /\ UNCHANGED <<exc, offHover>>)

NextExcursion ==
    \/ \E d \in TickSteps : Tick(d) /\ UNCHANGED <<exc, offHover>>
    \/ \E p \in MousePoints :
          /\ MoveMouse(p)
          /\ exc' = ExcMove(InZone, Classify(p, expanded, Screens, TRUE))
          /\ UNCHANGED offHover
    \/ \E e \in BOOLEAN :
          /\ set_notch_expanded(e)
          /\ exc' = ExcMove(InZone, Classify(mouse, e, Screens, TRUE))
          /\ UNCHANGED offHover
    \/ \E c \in Sources :
          /\ Sample(c, TRUE)
          /\ exc' = ExcSample(c, Classify(mouse, expanded, Screens, TRUE))
          /\ UNCHANGED offHover
    \/ \E c \in Sources : Acquire(c) /\ UNCHANGED <<exc, offHover>>
    \/ \E c \in Sources : Update(c) /\ UNCHANGED <<exc, offHover>>
    \/ \E c \in Sources :
          /\ EmitRelease(c)
          /\ exc' = ExcReturn(c, call[c].changed # None)
          /\ UNCHANGED offHover

\* the hover monitor with the history of the pointer's excursions
SpecExcursion == InitMonitor /\ [][NextExcursion]_vars

\* the bridge at start on one of the hosts, the monitor idle
InitOn(hosts) ==
    /\ InitHover
    /\ \E e \in hosts : InitBridge(e)
    /\ InitFocus
    /\ InitConfig(NoFiles)
    /\ InitZone(Screens)
    /\ InitAnim

\* the hosts on which no attach can find the animator class
FallbackEnvs ==
    { e \in Envs : ResolveClass(Registered(e, ProbePaths(e.paths))) = 0 }

NextFallback ==
    \/ \E s \in BOOLEAN : attach_animator(s) /\ UNCHANGED offBridge
    \/ \E s \in BOOLEAN : expand(s) /\ UNCHANGED offBridge
    \/ \E s \in BOOLEAN : collapse(s) /\ UNCHANGED offBridge
    \/ \E w, n, f, a \in BOOLEAN : AttachTask(w, n, f, a) /\ UNCHANGED offBridge
    \/ \E f, a, y \in BOOLEAN : ExpandTask(f, a, y) /\ UNCHANGED offBridge
    \/ \E f, a, y \in BOOLEAN : CollapseTask(f, a, y) /\ UNCHANGED offBridge
    \/ \E p \in ProgressValues : SetProgressCopy(p) /\ UNCHANGED offBridge

\* the bridge where no engine attaches; the main thread's event loop runs
\* every closure handed to it, and nothing the process can do stays undone
SpecFallback ==
    /\ InitOn(FallbackEnvs)
    /\ [][NextFallback]_vars
    /\ WF_vars(NextFallback)

\* the animation bridge on every host
SpecBridge == InitOn(Envs) /\ [][NextBridge]_vars

\* the focus command, the monitor and the bridge idle
InitCommand ==
    /\ InitHover
    /\ InitBridge(HoverEnv)
    /\ InitFocus
    /\ InitConfig(NoFiles)
    /\ InitZone(Screens)
    /\ InitAnim

\* the focus command under concurrent callers
SpecFocus == InitCommand /\ [][NextFocus]_vars

\* the event loop takes up a queued closure: it runs it or drops it
FocusLoop ==
    \/ \E f, n, p \in BOOLEAN : FocusRun(f, n, p) /\ UNCHANGED offFocus
    \/ FocusDrop /\ UNCHANGED offFocus

\* the focus command where the event loop leaves no queued closure waiting
\* forever and a caller whose channel has yielded goes on
SpecFocusFair ==
    /\ InitCommand
    /\ [][NextFocus]_vars
    /\ WF_vars(FocusLoop)
    /\ \A c \in Callers : WF_vars(FocusRecv(c) /\ UNCHANGED offFocus)

\* the configuration cell on every arrangement of the candidate files
InitFiles ==
    /\ InitHover
    /\ InitBridge(HoverEnv)
    /\ InitFocus
    /\ \E fs \in [1..3 -> FileKinds] : InitConfig(fs)
    /\ InitZone(Screens)
    /\ InitAnim

\* the configuration under concurrent first accesses
SpecConfig == InitFiles /\ [][NextConfig]_vars

\* the inputs of the zone resolver
InitInputs ==
    /\ now = 0
    /\ mouse \in ZonePoints
    /\ expanded \in BOOLEAN
    /\ st \in { [inside |-> i, ts |-> 0] : i \in BOOLEAN }
    /\ holder = "none"
    /\ call = [c \in Sources |-> IdleCall]
    /\ hover_events = <<>>
    /\ confirmedAt = 0
    /\ exc = NoExcursion
    /\ InitBridge(HoverEnv)
    /\ InitFocus
    /\ files = NoFiles
    /\ CONFIG \in { Some(c) : c \in Snapshots }
    /\ cthr = [t \in CfgThreads |-> IdleGet]
    /\ loads = NoLoads
    /\ \E ds \in DisplayLists : InitZone(ds)
    /\ InitAnim

\* the zone resolver on every input
SpecZone == InitInputs /\ [][NextZone]_vars

\* the main thread takes up a closure handed to with_webview
AnimLoop == \E r \in BOOLEAN : AnimTask(r) /\ UNCHANGED offAnim

\* a timer thread's sleep ends
AnimTimers == \E t \in TimerIds : TimerFire(t) /\ UNCHANGED offAnim

\* the window animation: the main thread runs every closure it is handed,
\* and every sleep ends
SpecAnim ==
    /\ InitMonitor
    /\ [][NextAnim]_vars
    /\ WF_vars(AnimLoop)
    /\ WF_vars(AnimTimers)

----------------------------------------------------------------------------
(* Properties of the hover monitor *)

\* the calls that have decided to emit and have not emitted yet
Pending == { c \in Sources : call[c].pc = "written" /\ call[c].changed # None }

\* the value of the last event emitted; FALSE, the initial state, before any
LastEmitted ==
    IF hover_events = <<>> THEN FALSE ELSE hover_events[Len(hover_events)].inside

\* the delay of a transition to `v`
Delay(v) == IF v THEN open_delay ELSE close_delay

\* C1: the emitted hover events strictly alternate in value, and each
\* confirmed transition emits exactly one event: the confirmed state differs
\* from the last event's value exactly while one call, which has written the
\* transition, is about to emit it.
C1_EventsAlternate ==
    /\ \A i \in 1..(Len(hover_events) - 1) :
          hover_events[i].inside # hover_events[i + 1].inside
    /\ Cardinality(Pending) <= 1
    /\ \A c \in Pending : call[c].changed = Some(st.inside)
    /\ (st.inside # LastEmitted) <=> (Pending # {})

\* C1 witness: three events have been emitted
C1_Witness == Len(hover_events) >= 3

\* C2: an event is never emitted before its direction's delay (open_delay
\* for inside:true, close_delay for inside:false) has elapsed since the
\* last confirmed state change (the monitor's start, before any).
C2_DelayElapsed ==
    \A c \in Pending :
        /\ st.ts - confirmedAt >= Delay(call[c].changed[1])
        /\ now - confirmedAt >= Delay(call[c].changed[1])

\* C2 witness: a close is about to be emitted after an open was emitted
C2_Witness ==
    \E c \in Pending : call[c].changed = Some(FALSE) /\ Len(hover_events) >= 1

\* the time the pointer has spent in the zone in its current or last stay
Dwell == (IF InZone THEN now ELSE exc.leftAt) - exc.enteredAt

\* C3: when the pointer enters the zone with Outside confirmed and leaves
\* before open_delay has elapsed since it entered, no event is emitted for
\* the excursion, whatever the time spent outside before.
C3_ShortExcursionSilent ==
    (exc.clean /\ Dwell < open_delay) => exc.emitted = 0

\* C4: when the pointer enters the zone with Outside confirmed and every
\* later sample is classified inside, exactly one event, inside:true, is
\* emitted, no earlier than open_delay after the entry, and it has been
\* emitted once a call sampled open_delay or more after the entry returns.
C4_LongStayOpensOnce ==
    (exc.clean /\ InZone /\ exc.allInside) =>
        /\ exc.emitted <= 1
        /\ exc.emitted = 1 =>
              /\ LastEmitted = TRUE
              /\ exc.emitAt - exc.enteredAt >= open_delay
        /\ exc.late = "done" => exc.emitted = 1

\* C5: the read of the pair, the decision, the write and the emission of a
\* call form one critical section: at most one call is between its lock
\* and its return, the pair it copied is still the stored pair when it
\* decides, its write is still the stored pair when it emits, and no other
\* call has confirmed the same transition.
C5_CriticalSection ==
    /\ Cardinality({ c \in Sources : call[c].pc \in {"locked", "written"} }) <= 1
    /\ \A c \in Sources :
          call[c].pc = "locked" =>
              /\ holder = c
              /\ call[c].was_inside = st.inside
              /\ call[c].ts = st.ts
    /\ \A c \in Pending :
          /\ holder = c
          /\ st.inside = call[c].changed[1]
          /\ LastEmitted # call[c].changed[1]

\* C5 witness: a call waits for the lock while another call, which has
\* confirmed a transition, holds it
C5_Witness ==
    \E c \in Pending : \E d \in Sources \ {c} : call[d].pc = "sampled"

----------------------------------------------------------------------------
(* Properties of the animation bridge *)

\* an "expand" completion event emitted since the last expand that found
\* the slot empty
CompletedSince ==
    /\ bh.unattachedExpandAt # 0
    /\ \E i \in bh.unattachedExpandAt..Len(anim_events) : anim_events[i].phase = "expand"

\* C6: with no animator handle attached, every expand() is eventually
\* followed by an animation-completion event with phase "expand"
C6_UnattachedExpandCompletes ==
    (bh.unattachedExpandAt # 0) ~> CompletedSince

\* C7 as stated: an attach() that runs when no candidate library path
\* exists or loads leaves a slot that was None at None
C7_NoLibraryLeavesNone ==
    (bh.lastAttach.ran /\ ~bh.lastAttach.loaded /\ bh.lastAttach.before = None)
        => ANIMATOR = None

\* C7 amended: an attach() that runs when no candidate library path exists
\* or loads, and no candidate class name resolves, leaves a slot that was
\* None at None
C7_NoLibraryNoClassLeavesNone ==
    (/\ bh.lastAttach.ran
     /\ ~bh.lastAttach.loaded
     /\ ~bh.lastAttach.classFound
     /\ bh.lastAttach.before = None)
        => ANIMATOR = None

C7_Witness ==
    /\ bh.lastAttach.ran
    /\ ~bh.lastAttach.loaded
    /\ ~bh.lastAttach.classFound
    /\ bh.lastAttach.before = None
    /\ env.paths = << "broken", "broken", "missing", "broken" >>
    /\ ANIMATOR = None

\* C8: a fault raised by a native call of attach, expand or collapse never
\* ends the process, and after it expand and collapse forward nothing to
\* the handle until the next successful attach
C8_FaultContained ==
    /\ death # "fault"
    /\ ~bh.fwdAfterFault

\* the messages that use the stored handle
UsesHandle(m) == m.msg \in {"expandWithDuration", "collapseWithDuration", "setProgress"}

\* C9: the slot holds the instance of the most recent attach that succeeded,
\* and every command is sent to the instance that was the most recent one
\* when the command read the slot
C9_LastWriterWins ==
    /\ ANIMATOR = bh.attached
    /\ \A i \in 1..Len(nativeLog) :
          UsesHandle(nativeLog[i]) => bh.latestAt[i] = Some(nativeLog[i].to)

C9_Witness ==
    /\ ANIMATOR = Some(2)
    /\ \E i, j \in 1..Len(nativeLog) :
          /\ i < j
          /\ nativeLog[i] = [to |-> 1, msg |-> "expandWithDuration", arg |-> expand_msg_duration]
          /\ nativeLog[j] = [to |-> 2, msg |-> "expandWithDuration", arg |-> expand_msg_duration]

\* a step of set_progress: its copy of the slot, or its message
SetProgressStep == bh'.spHist # bh.spHist \/ sp' # sp

\* C10: no step of set_progress ends the process or changes the slot,
\* whatever the value; with the slot empty the call sends nothing, and with
\* a handle it sends exactly the value it was given to that handle
C10_SetProgressForwards ==
    [][SetProgressStep =>
         /\ death' = death
         /\ ANIMATOR' = ANIMATOR
         /\ (sp.pc = "idle" => nativeLog' = nativeLog)
         /\ (sp.pc = "idle" /\ ANIMATOR = None => sp' = IdleProgress)
         /\ (sp.pc = "copied" =>
                nativeLog' = Append(nativeLog, [to |-> sp.animator_id[1],
                                                msg |-> "setProgress",
                                                arg |-> sp.progress]))]_vars

C10_Witness ==
    /\ \E i \in 1..Len(bh.spHist) : bh.spHist[i].animator_id = None
    /\ \E i \in 1..Len(nativeLog) :
          nativeLog[i].msg = "setProgress" /\ nativeLog[i].arg = 15

----------------------------------------------------------------------------
(* Properties of the focus command *)

\* the errors set_capsule_focus makes itself: lines 244 and 250
HandoffErrors == {"failed to schedule focus change", "focus change channel dropped"}

\* C11 as stated: set_capsule_focus returns only after the focus closure
\* has run on the main thread, and returns what the closure produced
C11_ReturnsMutationResult ==
    \A c \in Callers :
        fcall[c].pc = "returned" =>
            /\ fh[c].ran
            /\ fh[c].thread = "main"
            /\ fcall[c].ret = fh[c].result

\* C11 amended: a call that returns has either had its closure run on the
\* main thread and returns exactly what the closure produced, or its closure
\* was never scheduled or was dropped without running, and it returns the
\* scheduling error or the channel error
C11_ReturnsResultOrHandoffError ==
    \A c \in Callers :
        fcall[c].pc = "returned" =>
            IF fh[c].ran
            THEN /\ fh[c].thread = "main"
                 /\ fh[c].result \in FocusResults
                 /\ fcall[c].ret = fh[c].result
            ELSE fcall[c].ret \in HandoffErrors

C11_Witness ==
    \E c, d \in Callers :
        /\ fcall[c].pc = "returned"
        /\ ~fcall[c].onMain
        /\ fh[c].ran
        /\ fcall[c].ret = "native window pointer was null"
        /\ fcall[d].pc = "returned"
        /\ ~fh[d].ran
        /\ fcall[d].ret = "focus change channel dropped"

----------------------------------------------------------------------------
(* Properties of the configuration *)

\* the candidates that load() saw and that read and parse
Loadable == { i \in 1..Len(loads.saw) : loads.saw[i] \in {"A", "B"} }

\* C12: when no candidate file can be read and parsed, the snapshot is the
\* compiled-in defaults, with expand_duration 0.50 and collapsed_width 460
C12_DefaultsOnTotalFailure ==
    (loads.runs >= 1 /\ Loadable = {}) =>
        /\ CONFIG = Some(DefaultConfig)
        /\ CONFIG[1].expand_duration = 50
        /\ CONFIG[1].collapsed_width = 460
        /\ \A t \in CfgThreads : cthr[t].pc = "done" => cthr[t].ret = CONFIG

C12_Witness ==
    /\ loads.runs = 1
    /\ loads.saw = << "absent", "bad", "absent" >>
    /\ \E t \in CfgThreads : cthr[t].pc = "done" /\ cthr[t].ret = Some(DefaultConfig)

\* C13: the first candidate, in probing order, that is both readable and
\* parseable is the configuration used
C13_FirstLoadableWins ==
    (loads.runs >= 1 /\ Loadable # {}) =>
        LET i == CHOOSE j \in Loadable : \A k \in Loadable : j <= k
        IN  CONFIG = Some(FileConfig(loads.saw[i]))

\* C14: load() runs at most once, and every get() returns the one snapshot
\* the cell holds
C14_LoadedOnceSameSnapshot ==
    /\ loads.runs <= 1
    /\ Cardinality(loads.returned) <= 1
    /\ CONFIG = None => loads.returned = {}
    /\ CONFIG # None => loads.returned \subseteq {CONFIG[1]}
    /\ \A t \in CfgThreads : cthr[t].pc = "done" => cthr[t].ret = CONFIG

\* both threads entered get() before the cell was set, and the files
\* changed after the load
C14_Witness ==
    /\ \A t \in CfgThreads : cthr[t].pc = "done"
    /\ loads.gets = 2
    /\ loads.runs = 1
    /\ load(files) # load(loads.saw)

----------------------------------------------------------------------------
(* Properties of the zone resolver *)

\* the displays, by position in the oracle's list, whose frame contains the
\* point, edges included
Containing(m) ==
    { i \in 1..Len(displays) :
        /\ displays[i].x <= m.x /\ m.x <= displays[i].x + displays[i].w
        /\ displays[i].y <= m.y /\ m.y <= displays[i].y + displays[i].h }

\* the zone is horizontally centered in frame f and anchored to its top edge
Anchored(z, f) ==
    /\ 2 * (z.x - f.x) = f.w - z.w
    /\ z.y + z.h = f.y + f.h

C16_ZoneSizedFromSnapshot ==
    \A n \in 1..Len(evals) :
        LET e == evals[n]
            hits == Containing(e.mouse)
            cfg == CONFIG[1]
        IN  e.result # None =>
              /\ Anchored(e.result[1],
                          displays[CHOOSE i \in hits : \A j \in hits : i <= j])
              /\ e.result[1].w = IF e.expanded THEN cfg.expanded_zone_width
                                 ELSE cfg.collapsed_zone_width
              /\ e.result[1].h = IF e.expanded THEN cfg.expanded_zone_height
                                 ELSE cfg.collapsed_zone_height

\* two evaluations of the resolver on the same pointer, flag and displays
SameInput(a, b) == a.mouse = b.mouse /\ a.expanded = b.expanded

----------------------------------------------------------------------------
(* Properties of the animation bridge: threads, callback, empty slot *)

\* C18: every message to a native animator object is sent on the main
\* thread
C18_NativeCallsOnMainThread ==
    \A i \in 1..Len(nativeLog) : bh.sentOn[i] = "main"

\* the invocations of the completion callback with a non-null pointer
NonNullCallbacks == SelectSeq(bh.callbacks, LAMBDA c : c.app_ptr # "null")

\* C19: every invocation of the completion callback with a non-null
\* pointer has emitted exactly one event, "expand" for phase code 0 and
\* "collapse" for any other, and an invocation with null has emitted none
C19_CallbackEmitsOnce ==
    /\ Len(anim_events) = Len(NonNullCallbacks)
    /\ \A i \in 1..Len(anim_events) :
          i <= Len(NonNullCallbacks) =>
              anim_events[i].phase =
                  IF NonNullCallbacks[i].phase = 0 THEN "expand" ELSE "collapse"

\* the closure of expand or collapse runs while the slot is empty
EmptySlotCommand ==
    /\ mainQueue # <<>>
    /\ Head(mainQueue) \in {"expand", "collapse"}
    /\ mainQueue' = Tail(mainQueue)
    /\ ANIMATOR = None

\* C20: expand and collapse run with the slot None send nothing to any
\* native object and leave the slot None
C20_EmptySlotForwardsNothing ==
    [][EmptySlotCommand => nativeLog' = nativeLog /\ ANIMATOR' = None]_vars

C20_Witness ==
    /\ bh.unattachedExpandAt # 0
    /\ calls >= 2
    /\ mainQueue = <<>>
    /\ nativeLog = <<>>
    /\ ANIMATOR = None

----------------------------------------------------------------------------
(* Properties of the debounce decision, sample by sample *)

\* the steps of a handle_mouse_move call
Classifies(c) == call[c].pc = "idle" /\ call'[c].pc = "sampled"
Decides(c) == call[c].pc = "locked" /\ call'[c].pc = "written"
Returns(c) == call[c].pc = "written" /\ call'[c].pc = "idle"

\* C21: a sample whose classification equals the confirmed state changes
\* neither `inside` nor the timestamp and emits no event
C21_MatchingSampleNoOp ==
    [][\A c \in Sources :
         call[c].inside = call[c].was_inside =>
             /\ Decides(c) => (st' = st /\ call'[c].changed = None)
             /\ Returns(c) => hover_events' = hover_events]_vars

C21_Witness ==
    \E c \in Sources :
        /\ call[c].pc = "written"
        /\ call[c].inside /\ call[c].was_inside
        /\ st.inside
        /\ st.ts < now

\* C22: a sample whose classification differs from the confirmed state and
\* that comes before the direction's delay has passed since the stored
\* timestamp sets the timestamp to the current instant, leaves `inside`
\* as it was and emits no event
C22_EarlySampleRestartsWait ==
    [][\A c \in Sources :
         /\ (/\ Decides(c)
             /\ call[c].inside # call[c].was_inside
             /\ now - call[c].ts < Delay(call[c].inside))
                => /\ st' = [inside |-> call[c].was_inside, ts |-> now]
                   /\ call'[c].changed = None
         /\ (/\ Returns(c)
             /\ call[c].inside # call[c].was_inside
             /\ st.ts - call[c].ts < Delay(call[c].inside))
                => hover_events' = hover_events]_vars

C22_Witness ==
    \E c \in Sources :
        /\ call[c].pc = "written"
        /\ ~call[c].inside /\ call[c].was_inside
        /\ call[c].changed = None
        /\ st = [inside |-> TRUE, ts |-> now]
        /\ 0 < now - call[c].ts
        /\ now - call[c].ts < close_delay

\* the snapshot NotchConfig::get() returns in this process
ConfigSnapshot == IF CONFIG = None THEN unwrap_or_default(load(files)) ELSE CONFIG[1]

\* C23: a change to inside is confirmed only when the time since the stored
\* timestamp is at least the snapshot's hover.expand_delay_ms, and a change
\* to outside only when it is at least hover.collapse_delay_ms
C23_ThresholdsFromSnapshot ==
    \A c \in Sources :
        (call[c].pc = "written" /\ call[c].changed # None) =>
            st.ts - call[c].ts >= IF call[c].changed[1]
                                  THEN ConfigSnapshot.expand_delay_ms
                                  ELSE ConfigSnapshot.collapse_delay_ms

\* C24: a sample for which the zone resolves to None is classified as
\* outside, and the decision treats it as any outside sample: it confirms
\* the change to outside exactly when the state is inside and close_delay
\* has passed
C24_NoZoneIsOutside ==
    [][\A c \in Sources :
         /\ (Classifies(c)
             /\ hover_zone(mouse, expanded, Screens, call'[c].onMain) = None)
                => ~call'[c].inside
         /\ (Decides(c) /\ ~call[c].onMain)
                => call'[c].changed =
                     IF call[c].was_inside /\ now - call[c].ts >= close_delay
                     THEN Some(FALSE) ELSE None]_vars

\* a sample taken off the main thread, where the zone is None, has
\* confirmed the change to outside
C24_Witness ==
    \E c \in Sources :
        /\ call[c].pc = "written"
        /\ ~call[c].onMain
        /\ call[c].changed = Some(FALSE)

-----------------------------------------------------------------------------
(* Properties of the attach closure's discovery steps *)

\* the last attach closure got past the window lookup
AttachProbed == bh.lastAttach.ran /\ bh.lastAttach.out # "no_window"

\* C25: attach probes the candidate paths in list order: a path that does
\* not exist is never opened, a path that exists and fails to load is
\* opened and the next one tried, and no path after the first one that
\* loads is opened
C25_ProbesInOrderUntilLoad ==
    AttachProbed =>
        LET probed == bh.lastAttach.probed
            n == Len(env.paths)
        IN  /\ probed \subseteq 1..n
            /\ \A i \in probed : env.paths[i] # "missing"
            /\ \A i \in probed :
                   env.paths[i] = "ok" => \A j \in probed : j <= i
            /\ \A i \in 1..n :
                   (/\ env.paths[i] # "missing"
                    /\ \A j \in 1..(i - 1) : env.paths[j] # "ok")
                       => i \in probed
            /\ bh.lastAttach.loaded <=> \E i \in probed : env.paths[i] = "ok"

\* an attach skipped a missing path, went on after a failed load and
\* stopped at the first of two paths that load
C25_Witness ==
    /\ AttachProbed
    /\ env.paths = << "broken", "missing", "ok", "ok" >>
    /\ bh.lastAttach.probed = {1, 3}
    /\ bh.lastAttach.loaded

\* C26: attach tries the candidate class names in list order and stops at
\* the first that resolves; when none resolves it has tried them all, and
\* it ends with the slot as it was and the process alive
C26_FirstResolvingClassOrReturn ==
    AttachProbed =>
        LET tried == bh.lastAttach.tried
            inProcess == env.linked \/ \E i \in 1..Len(env.paths) : env.paths[i] = "ok"
            known == { i \in 1..Len(class_names) :
                         inProcess /\ class_names[i] \in env.classes }
        IN  /\ \E k \in 1..Len(class_names) : tried = 1..k
            /\ \A i \in tried : i \in known => \A j \in tried : j <= i
            /\ bh.lastAttach.classFound <=> tried \cap known # {}
            /\ tried \cap known = {} =>
                   /\ tried = 1..Len(class_names)
                   /\ bh.lastAttach.out = "no_class"
                   /\ ANIMATOR = bh.lastAttach.before
                   /\ ~bh.lastAttach.died

\* an attach went through all the names without finding the class and
\* returned, the slot as it was
C26_Witness ==
    /\ AttachProbed
    /\ bh.lastAttach.tried = 1..Len(class_names)
    /\ ~bh.lastAttach.classFound
    /\ bh.lastAttach.out = "no_class"
    /\ ANIMATOR = bh.lastAttach.before
    /\ Alive

\* an attach stopped at the second name, the first of two that resolve
C26_WitnessFirstOfTwo ==
    /\ AttachProbed
    /\ env.classes = {class_names[2], class_names[3]}
    /\ bh.lastAttach.tried = {1, 2}
    /\ bh.lastAttach.classFound

-----------------------------------------------------------------------------
(* Properties of the slot and of the commands sent from it *)

\* the main thread runs an attach closure
RunsAttach ==
    /\ mainQueue # <<>>
    /\ Head(mainQueue) = "attach"
    /\ mainQueue' = Tail(mainQueue)

\* C27: the slot changes only in a step of the attach closure, which the
\* main thread runs, and then to the handle that closure created; no step
\* of expand, collapse, set_progress or the completion callback changes it
C27_SlotWrittenOnlyByAttach ==
    [][ANIMATOR' # ANIMATOR =>
          /\ RunsAttach
          /\ bh'.lastAttach.out = "stored"
          /\ ANIMATOR' = Some(Cardinality(ids'))
          /\ ids' # ids]_vars

\* expand, collapse, set_progress and the completion callback have all run
\* on the handle of the one attach, which is still in the slot
C27_Witness ==
    /\ ANIMATOR = Some(1)
    /\ ids = {1}
    /\ \E i, j, k \in 1..Len(nativeLog) :
          /\ nativeLog[i].to = 1 /\ nativeLog[i].msg = "expandWithDuration"
          /\ nativeLog[j].to = 1 /\ nativeLog[j].msg = "collapseWithDuration"
          /\ nativeLog[k].to = 1 /\ nativeLog[k].msg = "setProgress"
    /\ bh.callbacks # <<>>
    /\ bh.faultSeen

\* the main thread runs the closure of an expand or collapse call
RunsCommand ==
    /\ mainQueue # <<>>
    /\ Head(mainQueue) \in {"expand", "collapse"}
    /\ mainQueue' = Tail(mainQueue)

\* the message the closure of a call sends
CommandOf(op) ==
    IF op = "expand"
    THEN [msg |-> "expandWithDuration", arg |-> expand_msg_duration]
    ELSE [msg |-> "collapseWithDuration", arg |-> collapse_msg_duration]

\* C28: with a handle in the slot, the closure of every expand and collapse
\* call sends exactly one command, its own, to that handle, whether or not
\* an earlier animation is still in flight; a queued call leaves the queue
\* only by being run, and an animation in flight only by completing
C28_EachCommandForwarded ==
    [][/\ (RunsCommand /\ ANIMATOR # None) =>
             nativeLog' = Append(nativeLog,
                                 [to |-> ANIMATOR[1],
                                  msg |-> CommandOf(Head(mainQueue)).msg,
                                  arg |-> CommandOf(Head(mainQueue)).arg])
       /\ mainQueue' # mainQueue =>
             \/ \E op \in {"attach", "expand", "collapse"} :
                   mainQueue' = Append(mainQueue, op)
             \/ RunsCommand
             \/ RunsAttach
       /\ pending' # pending =>
             \/ /\ Len(pending') = Len(pending) + 1
                /\ SubSeq(pending', 1, Len(pending)) = pending
             \/ /\ pending # <<>>
                /\ pending' = Tail(pending)
                /\ Len(bh'.callbacks) = Len(bh.callbacks) + 1]_vars

\* a collapse was forwarded while the expand before it had not completed:
\* both commands reached the handle and both animations are in flight
C28_Witness ==
    /\ ANIMATOR = Some(1)
    /\ Len(pending) = 2
    /\ pending[1].phase = 0
    /\ pending[2].phase = 1
    /\ \E i \in 1..Len(nativeLog) :
          /\ i < Len(nativeLog)
          /\ nativeLog[i] = [to |-> 1, msg |-> "expandWithDuration",
                             arg |-> expand_msg_duration]
          /\ nativeLog[i + 1] = [to |-> 1, msg |-> "collapseWithDuration",
                                 arg |-> collapse_msg_duration]

-----------------------------------------------------------------------------
(* Properties of the window under the focus command *)

\* C29: the window is as the last focus change that reached it left it:
\* after set_focus(false) it carries the non-activating trait, is not
\* active and is ordered back; after set_focus(true) it lacks the trait and
\* is key and front; before any successful call it is as setup left it,
\* with the trait set; every call that returns Ok is among those changes
C29_WindowFollowsLastFocus ==
    /\ SetupWindow.nonactivating
    /\ IF applied = <<>>
       THEN win = SetupWindow
       ELSE IF applied[Len(applied)].focus
       THEN ~win.nonactivating /\ win.active /\ win.order = "front"
       ELSE win.nonactivating /\ ~win.active /\ win.order = "back"
    /\ \A c \in Callers :
          (fcall[c].pc = "returned" /\ fcall[c].ret = "Ok") =>
              \E i \in 1..Len(applied) :
                  applied[i] = [caller |-> c, focus |-> fcall[c].focus]

\* two set_focus(true) calls succeeded one after the other, and the window
\* is key and front
C29_Witness ==
    /\ Len(applied) = 3
    /\ ~applied[1].focus
    /\ applied[2].focus
    /\ applied[3].focus
    /\ \A c \in Callers : fcall[c].pc = "returned" => fcall[c].ret = "Ok"
    /\ \E c \in Callers : fcall[c].pc = "returned"
    /\ win = [nonactivating |-> FALSE, active |-> TRUE, order |-> "front"]

\* C30: a closure that fails, one that is dropped without running and a
\* call that could not be scheduled leave the window's trait, activation
\* and ordering as they were, and the call returns the error
C30_FailureLeavesWindow ==
    [][\A c \in Callers :
         /\ (chan'[c] # chan[c] /\ chan'[c] \notin {"empty", "Ok"}) => win' = win
         /\ (fcall[c].pc = "idle" /\ fcall'[c].pc = "returned") =>
                /\ win' = win
                /\ fcall'[c].ret = "failed to schedule focus change"
         /\ (fcall[c].pc = "recv" /\ fcall'[c].pc = "returned") =>
                /\ win' = win
                /\ chan[c] # "Ok" =>
                      fcall'[c].ret \in (FocusResults \cup HandoffErrors) \ {"Ok"}
                /\ chan[c] = "Ok" => fcall'[c].ret = "Ok"]_vars

\* a call went wrong in each of the ways and returned the error, on a window
\* an earlier call had brought to the front
C30_Witness ==
    /\ applied = << [caller |-> "a", focus |-> TRUE] >>
    /\ fcount = MaxFocusCalls
    /\ fcall["a"].pc = "returned"
    /\ fcall["a"].ret = "failed to schedule focus change"
    /\ fcall["b"].pc = "returned"
    /\ fcall["b"].ret = "native window pointer was null"
    /\ win = [nonactivating |-> FALSE, active |-> TRUE, order |-> "front"]

\* C31: where the event loop takes up every closure handed to it, every
\* call that waits on its channel returns; a call whose closure was
\* dropped without running returns the channel error; and a call returns
\* from the wait only on what the channel yields, however long that takes
C31_FocusCallReturns ==
    /\ \A c \in Callers : (fcall[c].pc = "recv") ~> (fcall[c].pc = "returned")
    /\ [][\A c \in Callers :
             (fcall[c].pc = "recv" /\ fcall'[c].pc # "recv") =>
                 /\ chan[c] # "empty"
                 /\ fcall'[c].pc = "returned"
                 /\ chan[c] = "dropped" =>
                        fcall'[c].ret = "focus change channel dropped"]_vars

\* one caller has returned the channel error after its closure was dropped,
\* while the other still waits for the event loop to take up its closure
C31_Witness ==
    \E c, d \in Callers :
        /\ fcall[c].pc = "returned"
        /\ ~fh[c].ran
        /\ fcall[c].ret = "focus change channel dropped"
        /\ fcall[d].pc = "recv"
        /\ chan[d] = "empty"
        /\ Len(uiQueue) = 1
        /\ uiQueue[1].caller = d

-----------------------------------------------------------------------------
(* Properties of the polled monitor *)

\* a call is confirming the change to outside
ConfirmsOutside ==
    \E c \in Sources : call[c].pc = "written" /\ call[c].changed = Some(FALSE)

\* C32: if the confirmed state is inside and from then on the pointer is
\* outside the zone, with the poller sampling on its period, the change to
\* outside is eventually confirmed and its event emitted
C32_PolledLeaveIsEmitted ==
    []((st.inside /\ [](~InZone)) => <>ConfirmsOutside)

-----------------------------------------------------------------------------
(* Properties of the debounce state against the events emitted *)

\* a call has written a confirmed change and not yet emitted its event
EmitDue == \E c \in Sources : call[c].pc = "written" /\ call[c].changed # None

\* C33: outside the instants between a confirming call's write and its
\* emission, both under the lock, the stored `inside` is the value of the
\* last event emitted, and false when none has been emitted; inside those
\* instants it is the value of the event about to be emitted; the first
\* event carries inside:true
C33_StateIsLastEvent ==
    /\ ~EmitDue =>
          st.inside = IF hover_events = <<>> THEN FALSE
                      ELSE hover_events[Len(hover_events)].inside
    /\ \A c \in Sources :
          (call[c].pc = "written" /\ call[c].changed # None) =>
              /\ holder = c
              /\ st.inside = call[c].changed[1]
    /\ hover_events # <<>> => hover_events[1].inside

\* three events have been emitted, and the state is inside as the last says
C33_Witness ==
    /\ Len(hover_events) = 3
    /\ hover_events[3].inside
    /\ st.inside
    /\ holder = "none"

\* C34: a call that has taken the lock to apply its sample has left no
\* call behind it that classified its own sample earlier, classified it
\* the other way and has not yet applied it
C34_AppliedInSampleOrder ==
    \A c \in Sources :
        call[c].pc \in {"locked", "written"} =>
            \A d \in call[c].older : call[d].inside = call[c].inside

-----------------------------------------------------------------------------
(* Properties of the attach closure's later steps *)

\* C35: the attachTo:closedRect:expandedRect:corner: message is sent only
\* on a host whose animator class responds to that selector
C35_AttachToOnlyIfSupported ==
    \A i \in 1..Len(nativeLog) :
        nativeLog[i].msg = "attachTo" => env.selectors = "full"

\* a call whose closure could not be handed to the main thread
NotScheduled == calls' # calls /\ mainQueue' = mainQueue /\ sp' = sp

\* C36: an attach that fails (no native window, no class, no instance, no
\* attach selector, a fault in the attach call) leaves the slot as it was;
\* so does a call that could not be scheduled; and a command that runs
\* after a failed attach goes to the handle that was stored before it
C36_FailedAttachKeepsSlot ==
    /\ [](bh.lastAttach.failed => ANIMATOR = bh.lastAttach.before)
    /\ [][/\ NotScheduled => ANIMATOR' = ANIMATOR
          /\ (/\ RunsCommand
              /\ bh.lastAttach.failed
              /\ bh.lastAttach.before # None)
                 => /\ Len(nativeLog') = Len(nativeLog) + 1
                    /\ nativeLog'[Len(nativeLog')].to = bh.lastAttach.before[1]]_vars

\* a second attach faulted in its attach call, the first one's handle is
\* still in the slot, and the expand that followed went to it
C36_Witness ==
    /\ bh.lastAttach.failed
    /\ bh.lastAttach.out = "fault"
    /\ bh.lastAttach.before = Some(1)
    /\ ANIMATOR = Some(1)
    /\ Len(nativeLog) >= 2
    /\ nativeLog[Len(nativeLog) - 1].to = 2
    /\ nativeLog[Len(nativeLog) - 1].msg = "attachTo"
    /\ nativeLog[Len(nativeLog)].to = 1
    /\ nativeLog[Len(nativeLog)].msg = "expandWithDuration"

\* C37: every completion callback that was given the application pointer
\* of its expand or collapse was given a pointer to a handle still alive
C37_AppHandleAlive ==
    \A i \in 1..Len(bh.callbacks) :
        bh.callbacks[i].app_ptr # "null" => bh.callbacks[i].app_ptr = "live"

-----------------------------------------------------------------------------
(* Properties of the window animation *)

\* the places of the history where call id has an entry of a kind
AnimAt(ev, id) == { i \in 1..Len(alog) : alog[i].ev = ev /\ alog[i].id = id }

\* the emissions of the history, in order
Emissions == { i \in 1..Len(alog) : alog[i].ev = "emit" }

\* C38: a call whose closure found the native window is followed by exactly
\* one completion event: none before the resize command was issued, one
\* once its timer has fired, none after, and it carries the phase the
\* caller gave; the events emitted are these and no others; a closure
\* that does not find the window changes nothing and starts no timer
C38_OneEventPerResolvedCall ==
    /\ [](/\ \A id \in 1..MaxAnimCalls :
               /\ Cardinality(AnimAt("emit", id)) <= 1
               /\ Cardinality(AnimAt("setFrame", id)) <= 1
               /\ \A j \in AnimAt("emit", id) :
                      /\ \E i \in AnimAt("setFrame", id) : i < j
                      /\ \E i \in AnimAt("call", id) :
                            i < j /\ alog[i].phase = alog[j].phase
               /\ AnimAt("setFrame", id) # {} =>
                      (AnimAt("emit", id) = {}) =
                          (\E t \in timers : t.id = id)
               /\ AnimAt("setFrame", id) = {} =>
                      ~\E t \in timers : t.id = id
          /\ Len(timer_events) = Cardinality(Emissions)
          /\ \A j \in Emissions :
                timer_events[Cardinality({ i \in Emissions : i <= j })]
                    = [phase |-> alog[j].phase])
    /\ [][(wvQueue # <<>> /\ wvQueue' = Tail(wvQueue) /\ alog' = alog) =>
             /\ wframe' = wframe
             /\ timers' = timers
             /\ timer_events' = timer_events]_vars
    /\ \A id \in 1..MaxAnimCalls :
          (AnimAt("setFrame", id) # {}) ~> (AnimAt("emit", id) # {})

\* three calls: the first two found the window and their events came in the
\* other order, the third did not find it and left nothing behind
C38_Witness ==
    /\ acount = 3
    /\ wvQueue = <<>>
    /\ timers = {}
    /\ AnimAt("setFrame", 1) # {}
    /\ AnimAt("setFrame", 2) # {}
    /\ AnimAt("setFrame", 3) = {}
    /\ timer_events = << [phase |-> "collapse"], [phase |-> "expand"] >>
    /\ \E i \in AnimAt("call", 1) : alog[i].phase = "expand"
    /\ wframe = [x |-> 490, y |-> 850, w |-> 460, h |-> 50]

====
